---- MODULE Spec2Model ----
(***************************************************************************)
(* DeepOrderedDict (src/deep_ordered_dict.py): an OrderedDict whose values *)
(* are either leaves or further DeepOrderedDicts, with the deep operations *)
(* __contains__, move_to_end and get_end.                                  *)
(*                                                                         *)
(* A Python object is modelled as a record of one shape:                   *)
(*   a scalar x (a key, a leaf value)   [dict |-> FALSE, val |-> x, ...]   *)
(*   a DeepOrderedDict                  [dict |-> TRUE, items |-> <<..>>]  *)
(* where items is the sequence of [key, value] entries in iteration order. *)
(***************************************************************************)
EXTENDS Integers, Sequences, FiniteSets, TLC

\* ---------------------------------------------------------------- bounds
MaxKey == 3
MaxLeaf == 1
MaxEntries == 5
MaxDicts == 3
MaxDepthArg == 1
MaxNodes == 2
MaxSlots == 2
MaxFrames == 4

Keys == 0..MaxKey
Leaves == 1..MaxLeaf
Depths == (-1)..MaxDepthArg
Nodes == 1..MaxNodes

\* ------------------------------------------------------------ the objects
Obj(x) == [dict |-> FALSE, val |-> x, items |-> <<>>]

Dict(es) == [dict |-> TRUE, val |-> 0, items |-> es]

Range(s) == {s[n] : n \in DOMAIN s}

keys(self) == [n \in DOMAIN self.items |-> self.items[n].key]

values(self) == [n \in DOMAIN self.items |-> self.items[n].value]

getitem(self, k) ==
    LET n == CHOOSE m \in DOMAIN self.items : self.items[m].key = k
    IN  self.items[n].value

\* self[k] = v : an existing key keeps its position, a new key is appended
setitem(self, k, v) ==
    IF k \in Range(keys(self))
    THEN Dict([n \in DOMAIN self.items |->
                 IF self.items[n].key = k THEN [key |-> k, value |-> v]
                 ELSE self.items[n]])
    ELSE Dict(Append(self.items, [key |-> k, value |-> v]))

\* the entries of s other than the one with key k, in their order
RECURSIVE Without(_, _)
Without(s, k) ==
    IF s = <<>> THEN <<>>
    ELSE IF Head(s).key = k THEN Without(Tail(s), k)
    ELSE <<Head(s)>> \o Without(Tail(s), k)

\* od_move_to_end with the direction dropped: always to the end
od_move_to_end_back(self, key, last) ==
    IF key \notin Range(keys(self))
    THEN [self |-> self, KeyError |-> TRUE]
    ELSE [self |-> Dict(Append(Without(self.items, key),
                               [key |-> key, value |-> getitem(self, key)])),
          KeyError |-> FALSE]

\* OrderedDict.move_to_end(self, key, last): KeyError when key is not a key
od_move_to_end(self, key, last) ==
    IF key \notin Range(keys(self))
    THEN [self |-> self, KeyError |-> TRUE]
    ELSE LET e    == [key |-> key, value |-> getitem(self, key)]
             rest == Without(self.items, key)
         IN  [self |-> Dict(IF last THEN Append(rest, e) ELSE <<e>> \o rest),
              KeyError |-> FALSE]

\* key_in_child without the membership test: every container child counts
key_in_child_any(self, i, key) == getitem(self, i).dict

\* line 99: key in [x for x in self[i].keys()]; a leaf has no keys()
\* (AttributeError, caught at line 103)
key_in_child(self, i, key) ==
    LET child == getitem(self, i)
    IN  child.dict /\ key \in Range(keys(child))

\* move_descends with the depth test dropped
move_descends_always(depth) == TRUE

\* line 93: if depth != 0
move_descends(depth) == depth # 0

RECURSIVE move_to_end(_, _, _, _)
RECURSIVE move_loop(_, _, _, _, _, _, _)
\* move_loop that stops at the first child that has key
move_loop_first(self, snap, n, key, last, depth, moved) ==
    IF n > Len(snap) THEN [self |-> self, moved |-> moved]
    ELSE LET i == snap[n]
         IN  IF key_in_child(self, i, key)
             THEN LET sub == move_to_end(getitem(self, i), key, last, depth - 1)
                      s2  == setitem(self, i, sub.self)
                  IN  [self |-> od_move_to_end(s2, i, last).self, moved |-> TRUE]
             ELSE move_loop(self, snap, n + 1, key, last, depth, moved)

\* move_loop that walks the snapshot from its end
RECURSIVE move_loop_backwards(_, _, _, _, _, _, _)
move_loop_backwards(self, snap, n, key, last, depth, moved) ==
    IF n > Len(snap) THEN [self |-> self, moved |-> moved]
    ELSE LET i == snap[Len(snap) + 1 - n]
         IN  IF key_in_child(self, i, key)
             THEN LET sub == move_to_end(getitem(self, i), key, last, depth - 1)
                      s2  == setitem(self, i, sub.self)
                      s3  == od_move_to_end(s2, i, last).self
                  IN  move_loop_backwards(s3, snap, n + 1, key, last, depth, TRUE)
             ELSE move_loop_backwards(self, snap, n + 1, key, last, depth, moved)

\* move_loop that stores the child it moved in under key instead of i
RECURSIVE move_loop_wrongkey(_, _, _, _, _, _, _)
move_loop_wrongkey(self, snap, n, key, last, depth, moved) ==
    IF n > Len(snap) THEN [self |-> self, moved |-> moved]
    ELSE LET i == snap[n]
         IN  IF key_in_child(self, i, key)
             THEN LET sub == move_to_end(getitem(self, i), key, last, depth - 1)
                      s2  == setitem(self, key, sub.self)
                      s3  == od_move_to_end(s2, i, last).self
                  IN  move_loop_wrongkey(s3, snap, n + 1, key, last, depth, TRUE)
             ELSE move_loop_wrongkey(self, snap, n + 1, key, last, depth, moved)

\* lines 96-104: the walk over the snapshot of the keys
move_loop(self, snap, n, key, last, depth, moved) ==
    IF n > Len(snap) THEN [self |-> self, moved |-> moved]
    ELSE LET i == snap[n]
         IN  IF key_in_child(self, i, key)
             THEN LET sub == move_to_end(getitem(self, i), key, last, depth - 1)
                      s2  == setitem(self, i, sub.self)
                      s3  == od_move_to_end(s2, i, last).self
                  IN  move_loop(s3, snap, n + 1, key, last, depth, TRUE)
             ELSE move_loop(self, snap, n + 1, key, last, depth, moved)

\* move_to_end without line 102: a move of a child is not recorded
move_to_end_unmarked(self, key, last, depth) ==
    LET direct == od_move_to_end(self, key, last)
        walked == move_loop(direct.self, keys(direct.self), 1, key, last, depth,
                            ~direct.KeyError)
    IN  IF move_descends(depth)
        THEN [self |-> walked.self, moved |-> ~direct.KeyError]
        ELSE [self |-> direct.self, moved |-> ~direct.KeyError]

\* move_to_end with the direct move (lines 88-92) after the walk
move_to_end_walk_first(self, key, last, depth) ==
    LET walked == IF move_descends(depth)
                  THEN move_loop(self, keys(self), 1, key, last, depth, FALSE)
                  ELSE [self |-> self, moved |-> FALSE]
        direct == od_move_to_end(walked.self, key, last)
    IN  [self |-> direct.self, moved |-> walked.moved \/ ~direct.KeyError]

\* DeepOrderedDict.move_to_end; KeyError(key) is raised iff ~moved
move_to_end(self, key, last, depth) ==
    LET direct == od_move_to_end(self, key, last)
    IN  IF move_descends(depth)
        THEN move_loop(direct.self, keys(direct.self), 1, key, last, depth,
                       ~direct.KeyError)
        ELSE [self |-> direct.self, moved |-> ~direct.KeyError]

\* ---------------------------------------------------------- __contains__
\* lines 53-56 and 64: target in self.keys() / target in self.values()
in_items(self, target, by_key) ==
    IF by_key
    THEN ~target.dict /\ target.val \in Range(keys(self))
    ELSE target \in Range(values(self))

\* contains_descends for positive depths only
contains_descends_positive(depth) == depth > 0

\* line 57: if depth != 0
contains_descends(depth) == depth # 0

\* DeepOrderedDict.__contains__; value.__contains__(target, by_key, depth-1)
\* on a leaf raises TypeError or AttributeError, which line 62 swallows
RECURSIVE contains(_, _, _, _)
contains(self, target, by_key, depth) ==
    IF /\ contains_descends(depth)
       /\ \E n \in DOMAIN self.items :
            LET value == self.items[n].value
            IN  value.dict /\ contains(value, target, by_key, depth - 1)
    THEN TRUE
    ELSE in_items(self, target, by_key)

\* ---------------------------------------------------------------- get_end
NoItem == [pair |-> FALSE, key |-> 0, value |-> Obj(0)]

\* line 123, "not item": False, 0 and an empty dict are falsy, a tuple of
\* two is not
truthy(item) ==
    \/ item.pair
    \/ item.value.dict /\ item.value.items # <<>>
    \/ ~item.value.dict /\ item.value.val # 0

\* what.lower()
lower(what) ==
    CASE what = "KEY" -> "key"
      [] what = "Value" -> "value"
      [] what = "ITEM" -> "item"
      [] OTHER -> what

\* end_index with idx = -1 whatever last is
end_index_last(self, last) == Len(self.items)

\* lines 110-115: list(self.keys())[idx]
end_index(self, last) == IF last THEN Len(self.items) ELSE 1

\* lines 124-131
format_end(self, end_key, what) ==
    CASE lower(what) = "key" ->
           [exc |-> "none", item |-> [pair |-> FALSE, key |-> 0, value |-> Obj(end_key)]]
      [] lower(what) = "value" ->
           [exc |-> "none", item |-> [pair |-> FALSE, key |-> 0, value |-> getitem(self, end_key)]]
      [] lower(what) = "item" ->
           [exc |-> "none", item |-> [pair |-> TRUE, key |-> end_key, value |-> getitem(self, end_key)]]
      [] OTHER -> [exc |-> "ValueError", item |-> NoItem]

\* DeepOrderedDict.get_end; exc is the exception that leaves the call
RECURSIVE get_end(_, _, _, _)
get_end(self, what, last, depth) ==
    IF self.items = <<>> THEN [exc |-> "IndexError", item |-> NoItem]
    ELSE LET end_key == keys(self)[end_index(self, last)]
             child   == getitem(self, end_key)
             sub     == IF depth # 0 /\ child.dict
                        THEN get_end(child, what, last, depth - 1)
                        ELSE [exc |-> "none", item |-> NoItem]
         IN  IF sub.exc # "none" THEN sub
             ELSE IF truthy(sub.item) THEN sub
             ELSE format_end(self, end_key, what)

\* ------------------------------------------------------- __lt__ / __gt__
\* A comparison gives [exc, val]: the exception that leaves it, or its value.
\* x < y and x > y on objects: between two ints the usual order; a
\* DeepOrderedDict on the left answers with its own __lt__ / __gt__ (default
\* arguments); an int on the left of a DeepOrderedDict returns NotImplemented
\* and Python asks the right operand's reflected method.
RECURSIVE py_lt(_, _)
RECURSIVE py_gt(_, _)
RECURSIVE min_from(_, _, _)
RECURSIVE max_from(_, _, _)

\* min(item) with a default for an empty item instead of the ValueError
min_or_default(item) ==
    IF item = <<>> THEN [exc |-> "none", obj |-> Obj(0)]
    ELSE min_from(item, 2, item[1])

\* min(item): ValueError on an empty sequence
min_of(item) ==
    IF item = <<>> THEN [exc |-> "ValueError", obj |-> Obj(0)]
    ELSE min_from(item, 2, item[1])

\* max(item): ValueError on an empty sequence
max_of(item) ==
    IF item = <<>> THEN [exc |-> "ValueError", obj |-> Obj(0)]
    ELSE max_from(item, 2, item[1])

min_from(item, n, best) ==
    IF n > Len(item) THEN [exc |-> "none", obj |-> best]
    ELSE LET c == py_lt(item[n], best)
         IN  IF c.exc # "none" THEN [exc |-> c.exc, obj |-> Obj(0)]
             ELSE min_from(item, n + 1, IF c.val THEN item[n] ELSE best)

max_from(item, n, best) ==
    IF n > Len(item) THEN [exc |-> "none", obj |-> best]
    ELSE LET c == py_gt(item[n], best)
         IN  IF c.exc # "none" THEN [exc |-> c.exc, obj |-> Obj(0)]
             ELSE max_from(item, n + 1, IF c.val THEN item[n] ELSE best)

\* lines 15-18 / 27-30: self.keys() or self.values()
cmp_item(self, by_key) ==
    IF by_key THEN [n \in DOMAIN self.items |-> Obj(self.items[n].key)]
    ELSE values(self)

\* DeepOrderedDict.__lt__
lt(self, other, cmp_max, by_key) ==
    LET m == IF cmp_max THEN max_of(cmp_item(self, by_key))
             ELSE min_of(cmp_item(self, by_key))
    IN  IF m.exc # "none" THEN [exc |-> m.exc, val |-> FALSE]
        ELSE py_lt(m.obj, other)

\* DeepOrderedDict.__gt__
gt(self, other, cmp_max, by_key) ==
    LET m == IF cmp_max THEN max_of(cmp_item(self, by_key))
             ELSE min_of(cmp_item(self, by_key))
    IN  IF m.exc # "none" THEN [exc |-> m.exc, val |-> FALSE]
        ELSE py_gt(m.obj, other)

py_lt(x, y) ==
    IF x.dict THEN lt(x, y, FALSE, FALSE)
    ELSE IF y.dict THEN gt(y, x, FALSE, FALSE)
    ELSE [exc |-> "none", val |-> x.val < y.val]

py_gt(x, y) ==
    IF x.dict THEN gt(x, y, FALSE, FALSE)
    ELSE IF y.dict THEN lt(y, x, FALSE, FALSE)
    ELSE [exc |-> "none", val |-> x.val > y.val]

\* ------------------------------------------------------- walking the tree
RECURSIVE NumEntries(_)
RECURSIVE SumEntries(_)
SumEntries(s) ==
    IF s = <<>> THEN 0 ELSE NumEntries(Head(s).value) + SumEntries(Tail(s))

NumEntries(node) ==
    IF node.dict THEN Len(node.items) + SumEntries(node.items) ELSE 0

RECURSIVE NumDicts(_)
RECURSIVE SumDicts(_)
SumDicts(s) ==
    IF s = <<>> THEN 0 ELSE NumDicts(Head(s).value) + SumDicts(Tail(s))

NumDicts(node) == IF node.dict THEN 1 + SumDicts(node.items) ELSE 0

\* the key paths from node to the containers in it (<<>> is node itself)
RECURSIVE Paths(_)
Paths(node) ==
    {<<>>} \cup UNION {{<<node.items[n].key>> \o p : p \in Paths(node.items[n].value)} :
                        n \in {m \in DOMAIN node.items : node.items[m].value.dict}}

RECURSIVE NodeAt(_, _)
NodeAt(node, p) ==
    IF p = <<>> THEN node ELSE NodeAt(getitem(node, Head(p)), Tail(p))

\* node[p[1]]...[p[n]][k] = v
RECURSIVE set_at(_, _, _, _)
set_at(node, p, k, v) ==
    IF p = <<>> THEN setitem(node, k, v)
    ELSE setitem(node, Head(p), set_at(getitem(node, Head(p)), Tail(p), k, v))

\* ------------------------------------------------------------- the state
\* tree: the root DeepOrderedDict (self.sched, opt_models.py line 352)
\* op:   the method whose call has just ended, "idle" between calls
\* pre:  the tree on entry to that call;  args: its arguments
\* ret:  what it returned (bool, item) or the exception it raised (exc)
\* heap:  DeepOrderedDicts held by reference, so that one can be stored as
\*        a child of another or of itself; heap[n] is the object n
\* stack: the frames of a deep call in progress on the heap, innermost last
VARIABLES tree, pre, op, args, ret, heap, stack

vars == <<tree, pre, op, args, ret, heap, stack>>

NoArgs == [key |-> 0, last |-> TRUE, depth |-> 0, by_key |-> TRUE,
           target |-> Obj(0), what |-> "key", cmp_max |-> FALSE]

NoRet == [exc |-> "none", bool |-> FALSE, item |-> NoItem]

Init ==
    /\ tree = Dict(<<>>)
    /\ pre = Dict(<<>>)
    /\ op = "idle"
    /\ args = NoArgs
    /\ ret = NoRet
    /\ heap = [n \in Nodes |-> Dict(<<>>)]
    /\ stack = <<>>

\* outer[key] = DeepOrderedDict() / outer[key][h] = ... / a['d'] = 300
SetItem ==
    \E p \in Paths(tree), k \in Keys, v \in {Obj(x) : x \in Leaves} \cup {Dict(<<>>)} :
        LET t == set_at(tree, p, k, v)
        IN  /\ op = "idle"
            /\ NumEntries(t) <= MaxEntries
            /\ NumDicts(t) <= MaxDicts
            /\ tree' = t
            /\ pre' = t
            /\ op' = "idle"
            /\ args' = NoArgs
            /\ ret' = NoRet
            /\ UNCHANGED <<heap, stack>>

MoveToEnd ==
    \E key \in Keys, last \in BOOLEAN, depth \in Depths :
        LET r == move_to_end(tree, key, last, depth)
        IN  /\ op = "idle"
            /\ tree' = r.self
            /\ pre' = tree
            /\ op' = "move_to_end"
            /\ args' = [NoArgs EXCEPT !.key = key, !.last = last, !.depth = depth]
            /\ ret' = [NoRet EXCEPT !.exc = IF r.moved THEN "none" ELSE "KeyError"]
            /\ UNCHANGED <<heap, stack>>

Whats == {"key", "value", "item", "KEY", "bogus"}

Targets(by_key) ==
    IF by_key THEN {Obj(k) : k \in Keys}
    ELSE {Obj(x) : x \in 1..(MaxLeaf + 1)}
         \cup {NodeAt(tree, p) : p \in Paths(tree)} \cup {Dict(<<>>)}

Contains ==
    \E by_key \in BOOLEAN, depth \in Depths :
        \E target \in Targets(by_key) :
            /\ op = "idle"
            /\ ret' = [NoRet EXCEPT !.bool = contains(tree, target, by_key, depth)]
            /\ op' = "contains"
            /\ args' = [NoArgs EXCEPT !.target = target, !.by_key = by_key,
                                      !.depth = depth]
            /\ pre' = tree
            /\ tree' = tree
            /\ UNCHANGED <<heap, stack>>

GetEnd ==
    \E what \in Whats, last \in BOOLEAN, depth \in Depths :
        LET r == get_end(tree, what, last, depth)
        IN  /\ op = "idle"
            /\ ret' = [NoRet EXCEPT !.exc = r.exc, !.item = r.item]
            /\ op' = "get_end"
            /\ args' = [NoArgs EXCEPT !.what = what, !.last = last, !.depth = depth]
            /\ pre' = tree
            /\ tree' = tree
            /\ UNCHANGED <<heap, stack>>

\* the scalars a tree is compared with
Scalars == {Obj(x) : x \in 0..(MaxLeaf + 1)}

Lt ==
    /\ op = "idle"
    /\ \E other \in Scalars, cmp_max \in BOOLEAN, by_key \in BOOLEAN :
        \E r \in {lt(tree, other, cmp_max, by_key)} :
            /\ ret' = [NoRet EXCEPT !.exc = r.exc, !.bool = r.val]
            /\ op' = "lt"
            /\ args' = [NoArgs EXCEPT !.target = other, !.cmp_max = cmp_max,
                                      !.by_key = by_key]
            /\ pre' = tree
            /\ tree' = tree
            /\ UNCHANGED <<heap, stack>>

Gt ==
    /\ op = "idle"
    /\ \E other \in Scalars, cmp_max \in BOOLEAN, by_key \in BOOLEAN :
        \E r \in {gt(tree, other, cmp_max, by_key)} :
            /\ ret' = [NoRet EXCEPT !.exc = r.exc, !.bool = r.val]
            /\ op' = "gt"
            /\ args' = [NoArgs EXCEPT !.target = other, !.cmp_max = cmp_max,
                                      !.by_key = by_key]
            /\ pre' = tree
            /\ tree' = tree
            /\ UNCHANGED <<heap, stack>>

\* the call has returned (or raised) and the caller goes on with the tree
Return ==
    /\ op # "idle"
    /\ stack = <<>>
    /\ op' = "idle"
    /\ pre' = tree
    /\ args' = NoArgs
    /\ ret' = NoRet
    /\ tree' = tree
    /\ UNCHANGED <<heap, stack>>

Next == SetItem \/ MoveToEnd \/ Return

Spec == Init /\ [][Next]_vars

NextContains == SetItem \/ Contains \/ Return

SpecContains == Init /\ [][NextContains]_vars

NextEnd == SetItem \/ MoveToEnd \/ GetEnd \/ Return

SpecEnd == Init /\ [][NextEnd]_vars

NextCmp == SetItem \/ Lt \/ Gt \/ Return

SpecCmp == Init /\ [][NextCmp]_vars

\* ------------------------------------------- deep calls on shared objects
\* A DeepOrderedDict stored in another is stored by reference.  In the heap
\* a container-valued entry holds Ref(n), the object n, and a deep call runs
\* frame by frame: every recursive call of lines 60, 100 and 120 pushes a
\* frame, and the interpreter raises RecursionError, which none of the
\* except clauses catches, when MaxFrames frames are already active.
Ref(n) == [dict |-> TRUE, val |-> n, items |-> <<>>]

HeapKeys == 0..(MaxSlots - 1)

\* a[k] = 1 / a[k] = b / a[k] = a
SetRef ==
    \E n \in Nodes, k \in HeapKeys,
       v \in {Obj(x) : x \in Leaves} \cup {Ref(m) : m \in Nodes} :
        LET node == setitem(heap[n], k, v)
        IN  /\ op = "idle"
            /\ Len(node.items) <= MaxSlots
            /\ heap' = [heap EXCEPT ![n] = node]
            /\ UNCHANGED <<tree, pre, op, args, ret, stack>>

\* the frame of one activation; i is the position in the loop over the
\* children, found and moved are the locals of __contains__ and move_to_end,
\* res is the item a nested get_end handed back
Frame(n, depth, snap, moved) ==
    [self |-> n, depth |-> depth, snap |-> snap, i |-> 1,
     moved |-> moved, found |-> FALSE, res |-> NoItem]

Top == stack[Len(stack)]

Caller == stack[Len(stack) - 1]

\* the stack after the innermost frame has returned and its caller's frame
\* has become f
ReturnTo(f) == [SubSeq(stack, 1, Len(stack) - 1) EXCEPT ![Len(stack) - 1] = f]

\* an exception that no frame catches ends the whole call
Raise(exc) ==
    /\ stack' = <<>>
    /\ ret' = [NoRet EXCEPT !.exc = exc]

\* lines 87-96 on object n: the direct move and the snapshot of the keys
enter_move(h, n, key, last, depth) ==
    LET m == od_move_to_end(h[n], key, last)
    IN  [heap  |-> [h EXCEPT ![n] = m.self],
         frame |-> Frame(n, depth,
                         IF move_descends(depth) THEN keys(m.self) ELSE <<>>,
                         ~m.KeyError)]

\* the item with a referenced container in place of its reference
deref(item) ==
    IF item.value.dict THEN [item EXCEPT !.value = heap[item.value.val]]
    ELSE item

CallContains ==
    \E n \in Nodes, by_key \in BOOLEAN, depth \in Depths :
        \E target \in {Obj(x) : x \in HeapKeys} :
            /\ op = "idle"
            /\ op' = "contains"
            /\ args' = [NoArgs EXCEPT !.target = target, !.by_key = by_key,
                                      !.depth = depth]
            /\ stack' = <<Frame(n, depth, <<>>, FALSE)>>
            /\ UNCHANGED <<tree, pre, ret, heap>>

\* lines 57-64 of the innermost frame
ContainsStep ==
    /\ op = "contains"
    /\ stack # <<>>
    /\ LET f    == Top
           self == heap[f.self]
       IN  IF contains_descends(f.depth) /\ ~f.found /\ f.i <= Len(self.items)
           THEN LET value == values(self)[f.i]
                IN  IF ~value.dict
                    THEN /\ stack' = [stack EXCEPT ![Len(stack)].i = f.i + 1]
                         /\ ret' = ret
                    ELSE IF Len(stack) >= MaxFrames
                    THEN Raise("RecursionError")
                    ELSE /\ stack' = Append(stack,
                                        Frame(value.val, f.depth - 1, <<>>, FALSE))
                         /\ ret' = ret
           ELSE LET b == f.found \/ in_items(self, args.target, args.by_key)
                IN  IF Len(stack) = 1
                    THEN /\ stack' = <<>>
                         /\ ret' = [NoRet EXCEPT !.bool = b]
                    ELSE /\ stack' = ReturnTo([Caller EXCEPT !.found = b,
                                                            !.i = Caller.i + 1])
                         /\ ret' = ret
    /\ UNCHANGED <<tree, pre, op, args, heap>>

CallMoveToEnd ==
    \E n \in Nodes, key \in HeapKeys, last \in BOOLEAN, depth \in Depths :
        LET e == enter_move(heap, n, key, last, depth)
        IN  /\ op = "idle"
            /\ op' = "move_to_end"
            /\ args' = [NoArgs EXCEPT !.key = key, !.last = last, !.depth = depth]
            /\ heap' = e.heap
            /\ stack' = <<e.frame>>
            /\ UNCHANGED <<tree, pre, ret>>

\* lines 96-106 of the innermost frame
MoveStep ==
    /\ op = "move_to_end"
    /\ stack # <<>>
    /\ LET f    == Top
           self == heap[f.self]
       IN  IF f.i <= Len(f.snap)
           THEN LET child == getitem(self, f.snap[f.i])
                IN  IF ~(child.dict /\ args.key \in Range(keys(heap[child.val])))
                    THEN /\ stack' = [stack EXCEPT ![Len(stack)].i = f.i + 1]
                         /\ UNCHANGED <<heap, ret>>
                    ELSE IF Len(stack) >= MaxFrames
                    THEN Raise("RecursionError") /\ heap' = heap
                    ELSE LET e == enter_move(heap, child.val, args.key,
                                             args.last, f.depth - 1)
                         IN  /\ heap' = e.heap
                             /\ stack' = Append(stack, e.frame)
                             /\ ret' = ret
           ELSE IF ~f.moved
           THEN Raise("KeyError") /\ heap' = heap
           ELSE IF Len(stack) = 1
           THEN /\ stack' = <<>>
                /\ ret' = NoRet
                /\ heap' = heap
           ELSE LET c == Caller
                    m == od_move_to_end(heap[c.self], c.snap[c.i], args.last)
                IN  /\ heap' = [heap EXCEPT ![c.self] = m.self]
                    /\ stack' = ReturnTo([c EXCEPT !.moved = TRUE, !.i = c.i + 1])
                    /\ ret' = ret
    /\ UNCHANGED <<tree, pre, op, args>>

CallGetEnd ==
    \E n \in Nodes, what \in Whats, last \in BOOLEAN, depth \in Depths :
        /\ op = "idle"
        /\ op' = "get_end"
        /\ args' = [NoArgs EXCEPT !.what = what, !.last = last, !.depth = depth]
        /\ stack' = <<Frame(n, depth, <<>>, FALSE)>>
        /\ UNCHANGED <<tree, pre, ret, heap>>

\* lines 110-132 of the innermost frame: i = 1 before the nested call,
\* afterwards res is what it handed back (False when none was made)
GetEndStep ==
    /\ op = "get_end"
    /\ stack # <<>>
    /\ LET f    == Top
           self == heap[f.self]
       IN  IF self.items = <<>>
           THEN Raise("IndexError")
           ELSE LET end_key == keys(self)[end_index(self, args.last)]
                    child   == getitem(self, end_key)
                    r       == IF truthy(deref(f.res))
                               THEN [exc |-> "none", item |-> f.res]
                               ELSE format_end(self, end_key, args.what)
                IN  IF f.i = 1 /\ f.depth # 0 /\ child.dict
                    THEN IF Len(stack) >= MaxFrames
                         THEN Raise("RecursionError")
                         ELSE /\ stack' = Append([stack EXCEPT ![Len(stack)].i = 2],
                                            Frame(child.val, f.depth - 1, <<>>, FALSE))
                              /\ ret' = ret
                    ELSE IF r.exc # "none"
                    THEN Raise(r.exc)
                    ELSE IF Len(stack) = 1
                    THEN /\ stack' = <<>>
                         /\ ret' = [NoRet EXCEPT !.item = r.item]
                    ELSE /\ stack' = ReturnTo([Caller EXCEPT !.res = r.item])
                         /\ ret' = ret
    /\ UNCHANGED <<tree, pre, op, args, heap>>

NextHeap ==
    \/ SetRef
    \/ CallContains \/ ContainsStep
    \/ CallMoveToEnd \/ MoveStep
    \/ CallGetEnd \/ GetEndStep
    \/ Return

SpecHeap == Init /\ [][NextHeap]_vars

\* ------------------------------------------- vocabulary of the properties
\* the paths of the containers of node that have key as a direct key
KeyPaths(node, key) == {p \in Paths(node) : key \in Range(keys(NodeAt(node, p)))}

\* the containers within the depth bound: depth levels down, all if depth < 0
ReachPaths(node, depth) == {p \in Paths(node) : depth < 0 \/ Len(p) <= depth}

Pos(self, k) == CHOOSE n \in DOMAIN self.items : self.items[n].key = k

Others(self, k) ==
    LET Keep(e) == e.key # k
    IN  SelectSeq(self.items, Keep)

Moved == op = "move_to_end" /\ ret.exc = "none"

NotFound == op = "move_to_end" /\ ret.exc = "KeyError"

\* C1: __contains__ is true exactly when target is among the keys (by_key)
\* or the values of a container within the depth bound, and it leaves the
\* tree alone; a key absent from every level is not found with depth -1,
\* and is found once it is inserted into any container of the tree.
C1_DeepContains ==
    /\ op = "contains" =>
         /\ tree = pre
         /\ ret.bool <=>
              \E p \in ReachPaths(pre, args.depth) :
                  \E n \in DOMAIN NodeAt(pre, p).items :
                      LET e == NodeAt(pre, p).items[n]
                      IN  IF args.by_key THEN Obj(e.key) = args.target
                          ELSE e.value = args.target
    /\ \A k \in Keys :
         KeyPaths(tree, k) = {} =>
           /\ ~contains(tree, Obj(k), TRUE, -1)
           /\ \A p \in Paths(tree) :
                contains(set_at(tree, p, k, Obj(1)), Obj(k), TRUE, -1)

C1_Witness ==
    /\ op = "contains" /\ args.by_key /\ args.depth = -1 /\ ret.bool
    /\ \A p \in KeyPaths(pre, args.target.val) : Len(p) = 2

\* C2: after a successful move_to_end(key, last, -1), at every level on the
\* path to every occurrence of key, every entry beyond the entry on the path
\* (after it for last, before it otherwise) is key or leads to key.
LeadsTo(e, key) == e.key = key \/ (e.value.dict /\ KeyPaths(e.value, key) # {})

InBoundaryGroup(level, k, key, last) ==
    \A n \in DOMAIN level.items :
        (IF last THEN n > Pos(level, k) ELSE n < Pos(level, k))
            => LeadsTo(level.items[n], key)

C2_EveryOccurrenceAtBoundary ==
    (Moved /\ args.depth = -1) =>
        \A p \in KeyPaths(tree, args.key) :
            /\ InBoundaryGroup(NodeAt(tree, p), args.key, args.key, args.last)
            /\ \A j \in 1..Len(p) :
                 InBoundaryGroup(NodeAt(tree, SubSeq(p, 1, j - 1)), p[j],
                                 args.key, args.last)

\* C3: move_to_end raises KeyError exactly when key is a key of no container
\* within the depth bound.
C3_NotFoundIffAbsent ==
    op = "move_to_end" =>
        (ret.exc = "KeyError" <=>
            \A p \in ReachPaths(pre, args.depth) : p \notin KeyPaths(pre, args.key))

\* C4: a move_to_end that raises KeyError leaves the tree as it was, and a
\* key that occurs nowhere always raises it.
C4_NotFoundIsNoOp ==
    /\ NotFound => tree = pre
    /\ (op = "move_to_end" /\ KeyPaths(pre, args.key) = {}) => NotFound

C4_Witness ==
    /\ NotFound
    /\ KeyPaths(pre, args.key) # {}
    /\ Len(pre.items) >= 2

\* C5: when key is a direct key of exactly one child C of the root and of
\* nothing else, move_to_end(key, FALSE, -1) puts C first in the root and
\* key first in C and changes nothing else.
OnlyInChild(c) == KeyPaths(pre, args.key) = {<<c>>}

C5_SingleChildFrame ==
    \A c \in Keys :
        (op = "move_to_end" /\ ~args.last /\ args.depth = -1 /\ OnlyInChild(c)) =>
            /\ ret.exc = "none"
            /\ tree.items[1].key = c
            /\ getitem(tree, c).items[1].key = args.key
            /\ Others(tree, c) = Others(pre, c)
            /\ Others(getitem(tree, c), args.key) = Others(getitem(pre, c), args.key)
            /\ getitem(getitem(tree, c), args.key) = getitem(getitem(pre, c), args.key)

C5_Witness ==
    \E c \in Keys :
        /\ op = "move_to_end" /\ ~args.last /\ args.depth = -1 /\ OnlyInChild(c)
        /\ Len(pre.items) = 3 /\ pre.items[3].key = c
        /\ Len(getitem(pre, c).items) = 2 /\ getitem(pre, c).items[2].key = args.key

\* C6: when key is a direct key of exactly two children A and B of the level
\* and of nothing else, after move_to_end(key, last, -1) A and B hold the two
\* boundary positions of the level and key is at the boundary inside both.
Boundary(self, n, last) == IF last THEN Len(self.items) + 1 - n ELSE n

C6_BothSiblingsAtBoundary ==
    \A a, b \in Keys :
        (op = "move_to_end" /\ args.depth = -1 /\ a # b
           /\ KeyPaths(pre, args.key) = {<<a>>, <<b>>}) =>
            /\ ret.exc = "none"
            /\ {tree.items[Boundary(tree, 1, args.last)].key,
                tree.items[Boundary(tree, 2, args.last)].key} = {a, b}
            /\ \A c \in {a, b} :
                 LET child == getitem(tree, c)
                 IN  child.items[Boundary(child, 1, args.last)].key = args.key

C6_Witness ==
    \E a, b \in Keys :
        /\ op = "move_to_end" /\ args.depth = -1 /\ args.last /\ a # b
        /\ KeyPaths(pre, args.key) = {<<a>>, <<b>>}
        /\ Len(pre.items) = 3
        /\ pre.items[1].key = a /\ pre.items[3].key = b

\* C7: when K is a key of the root only, move_to_end(K, TRUE, -1) leaves K
\* last and the other entries of the root in their order, and a second call
\* changes nothing.
C7_RootOnlyIdempotent ==
    (op = "move_to_end" /\ args.last /\ args.depth = -1
       /\ KeyPaths(pre, args.key) = {<<>>}) =>
        /\ ret.exc = "none"
        /\ tree.items = Append(Others(pre, args.key),
                               [key |-> args.key, value |-> getitem(pre, args.key)])
        /\ move_to_end(tree, args.key, TRUE, -1) = [self |-> tree, moved |-> TRUE]

C7_Witness ==
    /\ op = "move_to_end" /\ args.last /\ args.depth = -1
    /\ KeyPaths(pre, args.key) = {<<>>}
    /\ Len(pre.items) = 3 /\ pre.items[1].key = args.key
    /\ \E n \in 2..3 : pre.items[n].value.dict /\ pre.items[n].value.items # <<>>

\* C8: move_to_end(key, last, 0) acts on the current level only: no nested
\* container changes, the other entries keep their order, and a key that is
\* not a key of the level raises KeyError even when it is nested below.
C8_DepthZeroCurrentLevelOnly ==
    (op = "move_to_end" /\ args.depth = 0) =>
        IF args.key \in Range(keys(pre))
        THEN /\ ret.exc = "none"
             /\ Others(tree, args.key) = Others(pre, args.key)
             /\ getitem(tree, args.key) = getitem(pre, args.key)
             /\ tree.items[Boundary(tree, 1, args.last)].key = args.key
        ELSE ret.exc = "KeyError" /\ tree = pre

C8_Witness ==
    /\ op = "move_to_end" /\ args.depth = 0
    /\ args.key \in Range(keys(pre))
    /\ tree # pre
    /\ \E p \in KeyPaths(pre, args.key) : Len(p) = 1

\* C9: get_end returns the boundary key, value or pair of the last container
\* on the boundary path: from the level it is called on, into the boundary
\* entry's value while that is a non-empty container and depth remains; a
\* child's result is returned whatever it is (0 included).  Stated for the
\* calls whose boundary path meets no empty container.
RECURSIVE EndLevel(_, _, _)
EndLevel(node, last, depth) ==
    LET child == node.items[Boundary(node, 1, last)].value
    IN  IF depth # 0 /\ child.dict /\ child.items # <<>>
        THEN EndLevel(child, last, depth - 1)
        ELSE node

\* an empty container is the boundary value somewhere on the boundary path
\* while depth remains (get_end then steps into it: IndexError, line 115)
RECURSIVE MeetsEmpty(_, _, _)
MeetsEmpty(node, last, depth) ==
    LET child == node.items[Boundary(node, 1, last)].value
    IN  /\ depth # 0
        /\ child.dict
        /\ (child.items = <<>> \/ MeetsEmpty(child, last, depth - 1))

C9_DeepestBoundaryElement ==
    (op = "get_end" /\ pre.items # <<>> /\ lower(args.what) \in {"key", "value", "item"}
       /\ ~MeetsEmpty(pre, args.last, args.depth)) =>
        LET level == EndLevel(pre, args.last, args.depth)
            e     == level.items[Boundary(level, 1, args.last)]
        IN  /\ ret.exc = "none"
            /\ ret.item = CASE lower(args.what) = "key" ->
                                 [pair |-> FALSE, key |-> 0, value |-> Obj(e.key)]
                            [] lower(args.what) = "value" ->
                                 [pair |-> FALSE, key |-> 0, value |-> e.value]
                            [] lower(args.what) = "item" ->
                                 [pair |-> TRUE, key |-> e.key, value |-> e.value]

\* C10: get_end('key', last, 0) on a non-empty level returns its last (first)
\* key whatever that key's value is and leaves the tree alone, so right after
\* a successful move_to_end(k, last, 0) it returns k.
C10_DepthZeroKey ==
    /\ (op = "get_end" /\ lower(args.what) = "key" /\ args.depth = 0
          /\ pre.items # <<>>) =>
         /\ ret.exc = "none"
         /\ ret.item = [pair |-> FALSE, key |-> 0,
                        value |-> Obj(pre.items[Boundary(pre, 1, args.last)].key)]
         /\ tree = pre
    /\ (Moved /\ args.depth = 0) =>
         get_end(tree, "key", args.last, 0) =
            [exc |-> "none",
             item |-> [pair |-> FALSE, key |-> 0, value |-> Obj(args.key)]]

C10_Witness ==
    /\ op = "get_end" /\ args.what = "key" /\ args.depth = 0 /\ ~args.last
    /\ Len(pre.items) >= 2
    /\ pre.items[1].value.dict /\ pre.items[1].value.items # <<>>
    /\ ret.item.value = Obj(pre.items[1].key)

\* C11: get_end with a what that is none of 'key', 'value', 'item' raises
\* ValueError, on every tree, for every direction and depth.
C11_BadKindValueError ==
    (op = "get_end" /\ lower(args.what) \notin {"key", "value", "item"}) =>
        ret.exc = "ValueError"

\* C12: __lt__ and __gt__ on a level with no entries raise ValueError instead
\* of returning a boolean, whatever cmp_max, by_key and other are.
C12_EmptyLevelValueError ==
    (op \in {"lt", "gt"} /\ pre.items = <<>>) => ret.exc = "ValueError"

C12_Witness ==
    /\ op = "gt" /\ pre.items = <<>> /\ ~args.cmp_max /\ args.by_key
    /\ ret.exc = "ValueError"

\* the children of self that have key as a direct key (line 99)
Branches(self, key) ==
    {e.key : e \in {x \in Range(self.items) :
                       x.value.dict /\ key \in Range(keys(x.value))}}

\* the keys of the level as line 96 snapshots them: after the direct move
SnapKeys ==
    LET o == Others(pre, args.key)
        rest == [n \in DOMAIN o |-> o[n].key]
    IN  IF args.key \notin Range(keys(pre)) THEN keys(pre)
        ELSE IF args.last THEN Append(rest, args.key)
        ELSE <<args.key>> \o rest

Restrict(s, S) ==
    LET In(x) == x \in S
    IN  SelectSeq(s, In)

Reverse(s) == [n \in DOMAIN s |-> s[Len(s) + 1 - n]]

\* the m keys of self next to the boundary, in iteration order
Block(self, m, last) ==
    IF last THEN SubSeq(keys(self), Len(self.items) - m + 1, Len(self.items))
    ELSE SubSeq(keys(self), 1, m)

SeveralBranches ==
    /\ op = "move_to_end" /\ args.depth # 0
    /\ Cardinality(Branches(pre, args.key)) >= 2

\* C13 (as claimed): the branches in which key is found end at the boundary
\* in the order of their discovery, for last = TRUE and for last = FALSE.
C13_DiscoveryOrder ==
    SeveralBranches =>
        LET B == Branches(pre, args.key)
        IN  Block(tree, Cardinality(B), args.last) = Restrict(SnapKeys, B)

\* C13 (amended): in the order of their discovery for last = TRUE, in the
\* reverse of it for last = FALSE (the branch found last is the first entry).
C13_DiscoveryOrderByDirection ==
    SeveralBranches =>
        LET B == Branches(pre, args.key)
            found == Restrict(SnapKeys, B)
        IN  Block(tree, Cardinality(B), args.last) =
                IF args.last THEN found ELSE Reverse(found)

C13_Witness ==
    /\ SeveralBranches /\ ~args.last
    /\ Len(pre.items) = 3
    /\ Branches(pre, args.key) = {pre.items[1].key, pre.items[3].key}
    /\ tree.items[1].key = pre.items[3].key

SelfContained ==
    \E n \in Nodes : \E e \in Range(heap[n].items) : e.value = Ref(n)

Deep == op \in {"contains", "move_to_end", "get_end"} /\ args.depth < 0

\* C15: on a structure in which an object is its own child, a deep call with
\* unbounded depth does not recurse without end: it never ends because the
\* frames of the interpreter are exhausted (RecursionError).
C15_SelfContainmentGuarded ==
    (Deep /\ SelfContained) => ret.exc # "RecursionError"


\* a tree with the order of every level forgotten
RECURSIVE Unordered(_)
Unordered(node) ==
    IF node.dict
    THEN [dict |-> TRUE,
          items |-> {[key |-> e.key, value |-> Unordered(e.value)] :
                        e \in Range(node.items)}]
    ELSE [dict |-> FALSE, items |-> {node.val}]

\* C16: move_to_end only reorders: after every call, raising or not, every
\* level has the keys it had with the values they had, and every child that
\* has key is at the boundary once (none skipped, none met twice).
C16_OnlyReorders ==
    op = "move_to_end" =>
        /\ Unordered(tree) = Unordered(pre)
        /\ NumEntries(tree) = NumEntries(pre)
        /\ args.depth # 0 =>
             LET B == Branches(pre, args.key)
             IN  Range(Block(tree, Cardinality(B), args.last)) = B

C16_Witness ==
    /\ Moved /\ args.depth = -1
    /\ Cardinality(Branches(pre, args.key)) = 2
    /\ keys(tree) # keys(pre)
    /\ \E c \in Branches(pre, args.key) : getitem(tree, c) # getitem(pre, c)

====
